---- MODULE Spec2Model ----
(***************************************************************************)
(* Model of cnap/core/keybroker.py (AmberKeyBrokerClient.get_key and       *)
(* decrypt_data) and of the retrieval in cnap/core/model.py                *)
(* (Model.__init__, get_model_info, decrypt_model).                        *)
(*                                                                         *)
(* The program is synchronous and single threaded: one top-level call runs *)
(* at a time.  pc is the position inside the running call; the inputs of   *)
(* the environment (HTTP responses, the attester, the bytes served) are    *)
(* chosen with \E at the step that reads them.                             *)
(*                                                                         *)
(* Python values: None is the string "None" (distinct from the empty       *)
(* string ""), bytes are sequences of 0..255, and a bytes variable that    *)
(* holds None is NoneBytes.  Exceptions are records [type, msg].           *)
(***************************************************************************)
EXTENDS Integers, Sequences, FiniteSets, TLC

(* ---------------------------------------------------------------- bounds *)
\* number of top-level calls in one behaviour
MaxCalls == 2
\* longest body (the bytes after the 12 byte header) of an envelope handed
\* directly to decrypt_data
MaxBody == 4
\* largest value of the low byte of iv_len / tag_len in such an envelope
MaxField == 3

(* ------------------------------------------------------ program constants *)
\* keybroker.py:123  for _ in range(3)
Retries == 3
\* keybroker.py:176  header_len = 12
header_len == 12
\* HTTP status the code tests for (keybroker.py:126, model.py:280)
HTTP_OK == 200

(* ----------------------------------------------------------- Python data *)
None == "None"
NoneBytes == << -1 >>

NoError == [type |-> "", msg |-> ""]
Err(t, m) == [type |-> t, msg |-> m]

RECURSIVE Sum(_)
Sum(s) == IF s = <<>> THEN 0 ELSE Head(s) + Sum(Tail(s))

Min(a, b) == IF a < b THEN a ELSE b
Max(a, b) == IF a > b THEN a ELSE b

\* Python's s[lo:hi]: a negative index counts from the end, and both ends
\* are clamped to 0..len(s).
PyIndex(n, i) == IF i < 0 THEN Max(n + i, 0) ELSE Min(i, n)
PySlice(s, lo, hi) ==
    LET a == PyIndex(Len(s), lo)
        b == PyIndex(Len(s), hi)
    IN  IF a < b THEN SubSeq(s, a + 1, b) ELSE <<>>
\* Python's s[lo:]
PySliceFrom(s, lo) == PySlice(s, lo, Len(s))

\* struct.pack('<I', n) / struct.unpack('<I', b): little endian uint32
PackU32(n) == << n % 256, (n \div 256) % 256, (n \div 65536) % 256,
                 (n \div 16777216) % 256 >>
UnpackU32(b) == b[1] + 256 * b[2] + 65536 * b[3] + 16777216 * b[4]

\* base64.b64encode / b64decode: an encoding, not the identity
b64encode(x) == [b64 |-> x]
b64decode(s) == s.b64

(* ------------------------------------------- the cryptography library *)
\* The library calls are modelled by what the code relies on: a private
\* key opens only what was wrapped for its own public half, and AES-GCM
\* returns the plaintext only when the tag fits key, IV and ciphertext.
\* The tag is GcmTagLen bytes long (16 in the library).
GcmTagLen == 2

\* rsa.generate_private_key: the n-th key generated by the process
public_key(priv) == [pub |-> priv]
\* public_bytes(DER, SubjectPublicKeyInfo)
public_bytes(pub) == [der |-> pub]
\* what a sender does with a public key: RSA-OAEP(SHA-256) encryption
OaepEncrypt(pub, m) == [to |-> pub.pub, m |-> m]
\* private_key.decrypt(ciphertext, OAEP(...)): ValueError on a wrong key
OaepDecrypt(priv, c) ==
    IF c.to = priv THEN [err |-> NoError, out |-> c.m]
    ELSE [err |-> Err("ValueError", "Decryption failed"), out |-> NoneBytes]

KeySum(key, iv) == Sum(key) + Sum(iv)
GcmCipherText(key, iv, pt) ==
    [i \in 1..Len(pt) |-> (pt[i] + KeySum(key, iv)) % 256]
GcmPlainText(key, iv, ct) ==
    [i \in 1..Len(ct) |-> (ct[i] + 256 * (1 + Len(key) + Len(iv)) - KeySum(key, iv)) % 256]
GcmTag(key, iv, ct) ==
    [i \in 1..GcmTagLen |-> (KeySum(key, iv) + Sum(ct) + i) % 256]

\* the encrypting party: the envelope of keybroker.py:155-162
Envelope(key, iv, pt) ==
    LET ct == GcmCipherText(key, iv, pt)
    IN  PackU32(Len(iv)) \o PackU32(GcmTagLen) \o PackU32(Len(pt))
          \o iv \o ct \o GcmTag(key, iv, ct)

\* Cipher(algorithms.AES(key), modes.GCM(iv, tag)).decryptor();
\* decryptor.update(data) + decryptor.finalize()
GcmDecrypt(key, iv, data, tag) ==
    IF Len(key) = 0
    THEN [err |-> Err("ValueError", "Invalid key size"), out |-> NoneBytes]
    ELSE IF Len(iv) = 0 \/ Len(tag) # GcmTagLen
    THEN [err |-> Err("ValueError", "Invalid IV or tag length"), out |-> NoneBytes]
    ELSE IF tag # GcmTag(key, iv, data)
    THEN [err |-> Err("InvalidTag", ""), out |-> NoneBytes]
    ELSE [err |-> NoError, out |-> GcmPlainText(key, iv, data)]

(* ------------------------------------ AmberKeyBrokerClient.decrypt_data *)
\* keybroker.py:177  struct.unpack('<3I', encrypted_data[:header_len])
HeaderOk(encrypted_data) == Len(PySlice(encrypted_data, 0, header_len)) = header_len
iv_len(encrypted_data) == UnpackU32(SubSeq(encrypted_data, 1, 4))
tag_len(encrypted_data) == UnpackU32(SubSeq(encrypted_data, 5, 8))
data_len(encrypted_data) == UnpackU32(SubSeq(encrypted_data, 9, 12))

\* keybroker.py:178  iv = encrypted_data[header_len : (iv_len + header_len)]
SliceIv(encrypted_data) ==
    PySlice(encrypted_data, header_len, iv_len(encrypted_data) + header_len)
\* keybroker.py:179  data = encrypted_data[(iv_len + header_len) : -tag_len]
SliceData(encrypted_data) ==
    PySlice(encrypted_data, iv_len(encrypted_data) + header_len,
            0 - tag_len(encrypted_data))
\* keybroker.py:180  tag = encrypted_data[-tag_len:]
SliceTag(encrypted_data) ==
    PySliceFrom(encrypted_data, 0 - tag_len(encrypted_data))

NoSlices == [called |-> FALSE, encrypted_data |-> <<>>,
             iv |-> <<>>, data |-> <<>>, tag |-> <<>>]

\* decrypt_data(encrypted_data, key): the error raised (NoError if none),
\* the bytes returned, and the locals handed to the cipher
decrypt_data(encrypted_data, key) ==
    IF encrypted_data = NoneBytes
    THEN [err |-> Err("ValueError", "The encrypted data can not be None"),
          out |-> NoneBytes, locals |-> NoSlices]
    ELSE IF key = NoneBytes
    THEN [err |-> Err("ValueError", "The key can not be None"),
          out |-> NoneBytes, locals |-> NoSlices]
    ELSE IF ~HeaderOk(encrypted_data)
    THEN [err |-> Err("struct.error", "unpack requires a buffer of 12 bytes"),
          out |-> NoneBytes, locals |-> NoSlices]
    ELSE LET iv == SliceIv(encrypted_data)
             data == SliceData(encrypted_data)
             tag == SliceTag(encrypted_data)
             r == GcmDecrypt(key, iv, data, tag)
         IN  [err |-> r.err, out |-> r.out,
              locals |-> [called |-> TRUE, encrypted_data |-> encrypted_data,
                          iv |-> iv, data |-> data, tag |-> tag]]

(* ------------------------------------------------------------- inputs *)
\* a URL is known by its '/'-separated segments, each a sequence of pieces;
\* the pieces ".enc" and " " are the ones replace() and strip() look for
Urls == {"http://ms/models/m.bin.enc", "http://ms/a.enc.b "}
UrlSegments(url) ==
    IF url = "http://ms/models/m.bin.enc"
    THEN << <<"http:">>, <<>>, <<"ms">>, <<"models">>, <<"m.bin", ".enc">> >>
    ELSE << <<"http:">>, <<>>, <<"ms">>, <<"a", ".enc", ".b", " ">> >>

\* metadata documents the model server may answer with (a missing key and a
\* JSON null both read as None through value(), model.py:284): a complete
\* document for an encrypted model, every document that differs from it in
\* one field, and the document of a plain model
GoodMeta == [id |-> "m1", url |-> "http://ms/models/m.bin.enc", encrypted |-> "true",
             kbs |-> "amber", kbs_url |-> "https://kbs", key_id |-> "k1"]
NoMeta == [id |-> None, url |-> None, encrypted |-> None, kbs |-> None,
           kbs_url |-> None, key_id |-> None]
FieldChoices(f) ==
    CASE f = "id" -> {None}
      [] f = "url" -> {None, "http://ms/a.enc.b "}
      [] f = "encrypted" -> {None, "false"}
      [] f = "kbs" -> {None, "other", ""}
      [] OTHER -> {None, ""}
MetaDatas ==
    {GoodMeta, [NoMeta EXCEPT !.id = "m1", !.url = "http://ms/a.enc.b "]}
      \cup UNION { {[GoodMeta EXCEPT ![f] = v] : v \in FieldChoices(f)} :
                     f \in DOMAIN GoodMeta }

\* key material held by the broker and the bytes the model server holds
SWK == <<5>>
ContentKey == <<7>>
PlainModel == <<10, 20, 30>>
IV == <<3>>
\* the last byte (a tag byte) changed
Tampered(e) == [e EXCEPT ![Len(e)] = (e[Len(e)] + 1) % 256]
ModelContents ==
    {PlainModel, Envelope(ContentKey, IV, PlainModel),
     Tampered(Envelope(ContentKey, IV, PlainModel))}

\* the bodies a broker may send with a response to request req
EmptyBody == [fields |-> {}, wrapped_key |-> b64encode(<<>>),
              wrapped_swk |-> b64encode(OaepEncrypt(public_key(0), <<>>))]
HonestBody(req) ==
    [fields |-> {"wrapped_key", "wrapped_swk"},
     wrapped_key |-> b64encode(Envelope(SWK, IV, ContentKey)),
     wrapped_swk |-> b64encode(OaepEncrypt(b64decode(req.user_data).der, SWK))]
Bodies(req) ==
    { HonestBody(req),
      [HonestBody(req) EXCEPT !.fields = {"wrapped_key"}],
      [HonestBody(req) EXCEPT !.fields = {"wrapped_swk"}],
      [HonestBody(req) EXCEPT !.wrapped_swk = b64encode(OaepEncrypt(public_key(0), SWK))],
      [HonestBody(req) EXCEPT !.wrapped_key = b64encode(Tampered(Envelope(SWK, IV, ContentKey)))] }

\* what one requests.post can end in: requests.exceptions.ConnectionError,
\* or a response with a status and a body
ConnectionFailure == [kind |-> "ConnectionError", status_code |-> 0, body |-> EmptyBody]
Response(status, body) == [kind |-> "response", status_code |-> status, body |-> body]
PostOutcomes(req) ==
    {ConnectionFailure, Response(500, EmptyBody)}
      \cup {Response(HTTP_OK, b) : b \in Bodies(req)}
NoResp == [kind |-> "None", status_code |-> 0, body |-> EmptyBody]

\* envelopes handed directly to decrypt_data: every header over the field
\* values, followed by a body of distinct bytes
FieldValues == (0..MaxField) \cup {256}
Body(n) == [i \in 1..n |-> 100 + i]
DirectEnvelopes ==
    {PackU32(i) \o PackU32(t) \o PackU32(d) \o Body(n) :
        i \in FieldValues, t \in FieldValues, d \in {0, 1, 300}, n \in 0..MaxBody}
      \cup {NoneBytes, <<1, 2, 3>>, Envelope(ContentKey, IV, PlainModel)}
DirectKeys == {NoneBytes, ContentKey}

(* -------------------------------------------------------------- state *)
VARIABLES
    pc,           \* position of the running call
    caller,       \* who called get_key: "model" (decrypt_model) or "direct"
    calls,        \* top-level calls started so far
    self,         \* the Model object: _id, _server, _path, _model_info
    meta_data,    \* get_model_info: the metadata document
    model_data,   \* get_model_info: the bytes to stage
    fs,           \* the file system: path -> content
    server_url,   \* get_key argument
    key_id,       \* get_key argument
    private_key,  \* get_key: the key pair generated (0: none yet)
    user_data,    \* get_key: base64 of the public key
    tdquote,      \* get_key: what Quote.get_quote returned, with its nonce
    req,          \* get_key: the request body
    attempt,      \* get_key: iterations of the retry loop so far
    resp,         \* get_key: the last response received
    key,          \* the content key get_key returned
    dd,           \* locals of the last decrypt_data that reached the cipher
    unwrapped_by, \* the private key given to private_key.decrypt (0: none)
    error,        \* the exception that ended the call
    log,          \* what the running call has done so far, in order
    posts,        \* the POSTs of the running call: request and outcome
    keyCounter,   \* key pairs generated by the process so far
    usedKeys      \* private keys of the calls that have ended

vars == <<pc, caller, calls, self, meta_data, model_data, fs, server_url, key_id,
          private_key, user_data, tdquote, req, attempt, resp, key, dd,
          unwrapped_by, error, log, posts, keyCounter, usedKeys>>

NoSelf == [_id |-> None, _server |-> None, _path |-> <<>>, _model_info |-> None]
NoReq == [quote |-> b64encode([nonce |-> b64encode(public_bytes(public_key(0)))]),
          user_data |-> b64encode(public_bytes(public_key(0)))]
NoQuote == [quote |-> [nonce |-> b64encode(public_bytes(public_key(0)))], got |-> FALSE]

\* the locals of a call, before the call
Locals ==
    /\ caller = "none" /\ self = NoSelf /\ meta_data = NoMeta
    /\ model_data = NoneBytes /\ server_url = None /\ key_id = None
    /\ private_key = 0 /\ user_data = NoReq.user_data /\ tdquote = NoQuote
    /\ req = NoReq /\ attempt = 0 /\ resp = NoResp /\ key = NoneBytes
    /\ dd = NoSlices /\ unwrapped_by = 0 /\ error = NoError
    /\ log = <<>> /\ posts = <<>>

\* model.py:294-296  the staging path of a URL
model_filename(url) ==
    LET last == UrlSegments(url)[Len(UrlSegments(url))]        \* split('/')[-1]
        replaced == SelectSeq(last, LAMBDA t : t # ".enc")     \* replace(".enc", "")
        lead == IF replaced # <<>> /\ Head(replaced) = " "
                THEN Tail(replaced) ELSE replaced              \* strip()
    IN  IF lead # <<>> /\ lead[Len(lead)] = " "
        THEN SubSeq(lead, 1, Len(lead) - 1) ELSE lead
PathOf(url) == <<"/tmp/">> \o model_filename(url)
Paths == {PathOf(u) : u \in Urls}
NoFile == << -2 >>

Init ==
    /\ pc = "idle" /\ calls = 0 /\ keyCounter = 0 /\ usedKeys = {}
    /\ fs = [p \in Paths |-> NoFile]
    /\ Locals

(* ------------------------------------------------------------ actions *)
gkVars == <<server_url, key_id, private_key, user_data, tdquote, req, attempt,
            resp, key, unwrapped_by, posts, keyCounter>>
mdVars == <<self, meta_data, model_data, fs>>

\* an exception leaves the running call
Raise(e) == pc' = "failed" /\ error' = e

\* model.py:232-249  Model.__init__(server, model_id)
NewModel(server, model_id) ==
    /\ pc = "idle" /\ calls < MaxCalls
    /\ calls' = calls + 1
    /\ IF model_id = None \/ server = None
       THEN /\ Raise(Err("ValueError", "Model server or model id can not be None"))
            /\ UNCHANGED self
       ELSE /\ pc' = "get_model_info"
            /\ self' = [self EXCEPT !._id = model_id, !._server = server]
            /\ UNCHANGED error
    /\ UNCHANGED <<caller, meta_data, model_data, fs, gkVars, dd, log, usedKeys>>

\* a validation that forgets the url
MetaInvalidIdOnly(md) == md.id = None

\* model.py:285  value("id") is None or value("url") is None
MetaInvalid(md) == md.id = None \/ md.url = None

\* model.py:273-286  get_model_info: fetch and validate the metadata
GetMetaData(status, md) ==
    /\ pc = "get_model_info"
    /\ log' = Append(log, "get_meta")
    /\ IF status # HTTP_OK
       THEN /\ Raise(Err("ConnectionError", "Connect model server failed"))
            /\ UNCHANGED meta_data
       ELSE IF MetaInvalid(md)
       THEN /\ Raise(Err("RuntimeError", "Model meta data is not valid"))
            /\ meta_data' = md
       ELSE /\ pc' = "download"
            /\ meta_data' = md
            /\ UNCHANGED error
    /\ UNCHANGED <<caller, calls, self, model_data, fs, gkVars, dd, usedKeys>>

\* model.py:298  if value("encrypted")
Truthy(v) == v = "true"

\* model.py:288-299  get_model_info: download the binary, derive the path
Download(status, content) ==
    /\ pc = "download"
    /\ log' = Append(log, "download")
    /\ IF status # HTTP_OK
       THEN /\ Raise(Err("ConnectionError", "Download model from server failed"))
            /\ UNCHANGED <<model_data, self>>
       ELSE /\ model_data' = content
            /\ self' = [self EXCEPT !._path = PathOf(meta_data.url)]
            /\ pc' = IF Truthy(meta_data.encrypted) THEN "decrypt_model" ELSE "stage"
            /\ UNCHANGED error
    /\ UNCHANGED <<caller, calls, meta_data, fs, gkVars, dd, usedKeys>>

\* model.py:308-319  decrypt_model up to the call of get_key.  The tests of
\* lines 310-315 build a ValueError and drop it (there is no raise), so
\* they change nothing.  For a kbs other than "amber" the function ends
\* without a return statement and the caller (model.py:299) receives None.
DecryptModel ==
    /\ pc = "decrypt_model"
    /\ IF meta_data.kbs = "amber"
       THEN /\ pc' = "get_key" /\ caller' = "model"
            /\ server_url' = meta_data.kbs_url /\ key_id' = meta_data.key_id
            /\ log' = log \o <<"decrypt_model", "get_key">>
            /\ UNCHANGED model_data
       ELSE /\ model_data' = NoneBytes
            /\ pc' = "stage"
            /\ log' = Append(log, "decrypt_model")
            /\ UNCHANGED <<caller, server_url, key_id>>
    /\ UNCHANGED error
    /\ UNCHANGED <<calls, self, meta_data, fs, private_key, user_data, tdquote, req,
                   attempt, resp, key, unwrapped_by, posts, keyCounter, dd, usedKeys>>

\* a caller other than Model calls AmberKeyBrokerClient.get_key
CallGetKey(url, kid) ==
    /\ pc = "idle" /\ calls < MaxCalls
    /\ calls' = calls + 1
    /\ pc' = "get_key" /\ caller' = "direct"
    /\ server_url' = url /\ key_id' = kid
    /\ log' = Append(log, "get_key")
    /\ UNCHANGED <<mdVars, private_key, user_data, tdquote, req, attempt, resp, key,
                   unwrapped_by, posts, keyCounter, dd, error, usedKeys>>

\* argument tests that reject nothing
ArgNeverMissing(x) == FALSE

\* keybroker.py:94, 96  the argument tests
ArgMissing(x) == x = None

\* a quote requested for a constant nonce instead of this call's public key
QuoteNonceStale(ud) == b64encode(public_bytes(public_key(0)))

\* keybroker.py:105  the nonce handed to Quote.get_quote
QuoteNonce(ud) == ud

\* keybroker.py:110-113  the request body
RequestBody(q, ud) == [quote |-> q, user_data |-> ud]

\* keybroker.py:94-122  get_key up to the retry loop; got: whether the
\* attester returned a quote
GetKeyEntry(got) ==
    /\ pc = "get_key"
    /\ IF ArgMissing(server_url)
       THEN /\ Raise(Err("ValueError", "KBS server url can not be None"))
            /\ UNCHANGED <<private_key, user_data, tdquote, req, keyCounter, log>>
       ELSE IF ArgMissing(key_id)
       THEN /\ Raise(Err("ValueError", "KBS key id can not be None"))
            /\ UNCHANGED <<private_key, user_data, tdquote, req, keyCounter, log>>
       ELSE LET priv == keyCounter + 1
                ud == b64encode(public_bytes(public_key(priv)))
                tdq == [quote |-> [nonce |-> QuoteNonce(ud)], got |-> got]
            IN  /\ private_key' = priv /\ keyCounter' = priv
                /\ user_data' = ud
                /\ tdquote' = tdq
                /\ log' = log \o <<"keygen", "get_quote">>
                /\ IF ~got
                   THEN /\ Raise(Err("RuntimeError", "Get TDX Quote failed"))
                        /\ UNCHANGED req
                   ELSE /\ req' = RequestBody(b64encode(tdq.quote), ud)
                        /\ pc' = "post"
                        /\ UNCHANGED error
    /\ UNCHANGED <<caller, calls, mdVars, server_url, key_id, attempt, resp, key,
                   unwrapped_by, posts, dd, usedKeys>>

\* a loop that stops at any response, whatever its status
LoopBreaksOnAnyResponse(r) == TRUE
\* a loop without the break
LoopNeverBreaks(r) == FALSE

\* keybroker.py:126-127  if resp.status_code in [200]: break
LoopBreaks(r) == r.status_code = HTTP_OK

\* a loop of one round too many
LoopExhaustedLate(n) == n > Retries

\* keybroker.py:123  for _ in range(3): the loop ends after the last round
LoopExhausted(n) == n >= Retries

\* keybroker.py:123-129  one round of the retry loop
Post(outcome) ==
    /\ pc = "post"
    /\ log' = Append(log, "post")
    /\ posts' = Append(posts, [req |-> req, outcome |-> outcome])
    /\ attempt' = attempt + 1
    /\ IF outcome.kind = "ConnectionError"
       THEN /\ resp' = resp
            /\ pc' = IF LoopExhausted(attempt') THEN "after_loop" ELSE "post"
       ELSE /\ resp' = outcome
            /\ pc' = IF LoopBreaks(outcome) \/ LoopExhausted(attempt')
                     THEN "after_loop" ELSE "post"
    /\ UNCHANGED <<caller, calls, mdVars, server_url, key_id, private_key, user_data,
                   tdquote, req, key, unwrapped_by, keyCounter, dd, error, usedKeys>>

\* keybroker.py:130  if resp is None or resp.status_code != 200
ExchangeFailed(r) == r = NoResp \/ r.status_code # HTTP_OK

\* keybroker.py:140  the private key that opens wrapped_swk
UnwrapKey(priv) == priv

\* keybroker.py:130-150  get_key after the loop: check the response, parse
\* it, unwrap the SWK, decrypt the content key, return it
AfterLoop ==
    /\ pc = "after_loop"
    /\ IF ExchangeFailed(resp)
       THEN /\ Raise(Err("RuntimeError", "Unexpected response from Amber KBS"))
            /\ UNCHANGED <<log, unwrapped_by, dd, key>>
       ELSE IF "wrapped_key" \notin resp.body.fields \/ "wrapped_swk" \notin resp.body.fields
       THEN /\ Raise(Err("RuntimeError", "Empty key response from Amber KBS"))
            /\ log' = Append(log, "json")
            /\ UNCHANGED <<unwrapped_by, dd, key>>
       ELSE LET wrapped_key == b64decode(resp.body.wrapped_key)
                wrapped_swk == b64decode(resp.body.wrapped_swk)
                swk == OaepDecrypt(UnwrapKey(private_key), wrapped_swk)
                r == decrypt_data(wrapped_key, swk.out)
            IN  /\ unwrapped_by' = UnwrapKey(private_key)
                /\ IF swk.err # NoError
                   THEN /\ Raise(swk.err)
                        /\ log' = log \o <<"json", "rsa_decrypt">>
                        /\ UNCHANGED <<dd, key>>
                   ELSE /\ log' = log \o <<"json", "rsa_decrypt", "decrypt_data">>
                        /\ dd' = r.locals
                        /\ IF r.err # NoError
                           THEN Raise(r.err) /\ UNCHANGED key
                           ELSE /\ key' = r.out
                                /\ pc' = IF caller = "model" THEN "model_decrypt_data"
                                         ELSE "done"
                                /\ UNCHANGED error
    /\ UNCHANGED <<caller, calls, mdVars, server_url, key_id, private_key, user_data,
                   tdquote, req, attempt, resp, posts, keyCounter, usedKeys>>

\* model.py:320 and 299  decrypt_model decrypts the download with the key
ModelDecryptData ==
    /\ pc = "model_decrypt_data"
    /\ LET r == decrypt_data(model_data, key)
       IN  /\ log' = Append(log, "decrypt_data")
           /\ dd' = r.locals
           /\ IF r.err # NoError
              THEN Raise(r.err) /\ UNCHANGED model_data
              ELSE /\ model_data' = r.out
                   /\ pc' = "stage"
                   /\ UNCHANGED error
    /\ UNCHANGED <<caller, calls, self, meta_data, fs, gkVars, usedKeys>>

\* model.py:301-306  open(self._path, "wb") creates or truncates the file,
\* then write(model_data); bytes are required, None raises TypeError
Stage ==
    /\ pc = "stage"
    /\ IF model_data = NoneBytes
       THEN /\ fs' = [fs EXCEPT ![self._path] = <<>>]
            /\ log' = Append(log, "open")
            /\ Raise(Err("TypeError", "a bytes-like object is required"))
            /\ UNCHANGED self
       ELSE /\ fs' = [fs EXCEPT ![self._path] = model_data]
            /\ log' = log \o <<"open", "write">>
            /\ self' = [self EXCEPT !._model_info = meta_data.id]
            /\ pc' = "done"
            /\ UNCHANGED error
    /\ UNCHANGED <<caller, calls, meta_data, model_data, gkVars, dd, usedKeys>>

\* a caller other than get_key and decrypt_model calls decrypt_data
CallDecryptData(encrypted_data, k) ==
    /\ pc = "idle" /\ calls < MaxCalls
    /\ calls' = calls + 1
    /\ LET r == decrypt_data(encrypted_data, k)
       IN  /\ log' = Append(log, "decrypt_data")
           /\ dd' = r.locals
           /\ IF r.err # NoError
              THEN Raise(r.err) /\ UNCHANGED model_data
              ELSE /\ model_data' = r.out
                   /\ pc' = "done"
                   /\ UNCHANGED error
    /\ UNCHANGED <<caller, self, meta_data, fs, gkVars, usedKeys>>

\* the call has returned or raised; its locals are gone, the files and the
\* keys generated so far remain
Return ==
    /\ pc \in {"done", "failed"}
    /\ pc' = "idle"
    /\ usedKeys' = IF private_key = 0 THEN usedKeys ELSE usedKeys \cup {private_key}
    /\ caller' = "none" /\ self' = NoSelf /\ meta_data' = NoMeta
    /\ model_data' = NoneBytes /\ server_url' = None /\ key_id' = None
    /\ private_key' = 0 /\ user_data' = NoReq.user_data /\ tdquote' = NoQuote
    /\ req' = NoReq /\ attempt' = 0 /\ resp' = NoResp /\ key' = NoneBytes
    /\ dd' = NoSlices /\ unwrapped_by' = 0 /\ error' = NoError
    /\ log' = <<>> /\ posts' = <<>>
    /\ UNCHANGED <<calls, fs, keyCounter>>

Next ==
    \/ \E server \in {None, "http://ms"}, model_id \in {None, "m1"} :
          NewModel(server, model_id)
    \/ \E status \in {HTTP_OK, 404}, md \in MetaDatas : GetMetaData(status, md)
    \/ \E status \in {HTTP_OK, 404}, content \in ModelContents : Download(status, content)
    \/ DecryptModel
    \/ \E url \in {None, "", "https://kbs"}, kid \in {None, "", "k1"} : CallGetKey(url, kid)
    \/ \E got \in BOOLEAN : GetKeyEntry(got)
    \/ \E outcome \in PostOutcomes(req) : Post(outcome)
    \/ AfterLoop
    \/ ModelDecryptData
    \/ Stage
    \/ \E e \in DirectEnvelopes, k \in DirectKeys : CallDecryptData(e, k)
    \/ Return

Spec == Init /\ [][Next]_vars

(* ---------------------------------------------------------- properties *)
\* The error names of the specification and the exceptions of the code
InvalidArgument(e) == e.type = "ValueError"
KeyBrokerUnreachable(e) == e = Err("RuntimeError", "Unexpected response from Amber KBS")
ValidationError(e) == e = Err("RuntimeError", "Model meta data is not valid")

Did(op) == \E i \in 1..Len(log) : log[i] = op
\* the retry loop of the running get_key call is over
LoopOver == posts # <<>> /\ pc \notin {"post", "after_loop"}
LastPost == posts[Len(posts)].outcome
No200 == \A i \in 1..Len(posts) : posts[i].outcome.status_code # HTTP_OK

\* C1 as claimed: a POST is followed by another POST only if it ended in a
\* connection failure; any HTTP response ends the attempts, and a response
\* other than 200 fails the call with KeyBrokerUnreachable.
C1_RetryOnlyAfterConnectionFailure ==
    /\ \A i \in 1..Len(posts) :
          posts[i].outcome.kind = "response" => i = Len(posts) /\ pc # "post"
    /\ (LoopOver /\ LastPost.kind = "response" /\ LastPost.status_code # HTTP_OK)
          => (pc = "failed" /\ KeyBrokerUnreachable(error))

\* C1 amended: a POST is followed by another POST only if it did not return
\* HTTP 200 (a connection failure or a non-200 response); a 200 ends the
\* loop at once and the exchange is not failed; the call fails with
\* KeyBrokerUnreachable exactly when all 3 attempts ended without a 200.
C1_RetryUntil200 ==
    /\ \A i \in 1..Len(posts) :
          posts[i].outcome.status_code = HTTP_OK => i = Len(posts) /\ pc # "post"
    /\ (LoopOver /\ LastPost.status_code = HTTP_OK) => ~KeyBrokerUnreachable(error)
    /\ (LoopOver /\ No200)
          => (Len(posts) = Retries /\ pc = "failed" /\ KeyBrokerUnreachable(error))
    /\ KeyBrokerUnreachable(error) => (Len(posts) = Retries /\ No200)

\* a non-200 response was retried and the retry's 200 gave the key
C1_Witness ==
    /\ Len(posts) = 2 /\ pc = "done" /\ key = ContentKey
    /\ posts[1].outcome.kind = "response" /\ posts[1].outcome.status_code = 500
    /\ posts[2].outcome.status_code = HTTP_OK

\* C2: a get_key call makes at most 3 POSTs; after 3 connection failures it
\* fails with KeyBrokerUnreachable without a 4th POST and without parsing a
\* response, unwrapping a key or decrypting an envelope.
AllConnectionFailures ==
    \A i \in 1..Len(posts) : posts[i].outcome.kind = "ConnectionError"
C2_AtMostThreeAttempts ==
    /\ Len(posts) <= Retries /\ attempt = Len(posts)
    /\ (Len(posts) = Retries /\ AllConnectionFailures)
          => /\ pc \in {"after_loop", "failed"}
             /\ pc = "failed" => KeyBrokerUnreachable(error)
             /\ ~Did("json") /\ ~Did("rsa_decrypt") /\ ~Did("decrypt_data")
             /\ unwrapped_by = 0 /\ dd = NoSlices /\ key = NoneBytes

C2_Witness ==
    /\ Len(posts) = Retries /\ AllConnectionFailures
    /\ pc = "failed" /\ KeyBrokerUnreachable(error)

\* C3: if the first k attempts (k = 0, 1, 2) end in a connection failure and
\* attempt k+1 returns 200, the loop ends after exactly k+1 attempts, the
\* exchange is not failed, and the body parsed is that of this 200 response.
C3_SuccessAfterConnectionFailures ==
    \A k \in 0..(Retries - 1) :
       ( /\ Len(posts) >= k + 1
         /\ \A i \in 1..k : posts[i].outcome.kind = "ConnectionError"
         /\ posts[k + 1].outcome.status_code = HTTP_OK )
       => /\ Len(posts) = k + 1 /\ pc # "post"
          /\ resp = posts[k + 1].outcome
          /\ pc # "after_loop" => (Did("json") /\ ~KeyBrokerUnreachable(error))
          /\ (pc # "after_loop" /\ resp.body = HonestBody(req))
                => key = ContentKey

\* two connection failures, then a 200 whose body gave the content key
C3_Witness ==
    /\ Len(posts) = 3 /\ Did("json") /\ key = ContentKey /\ pc = "done"
    /\ posts[1].outcome.kind = "ConnectionError"
    /\ posts[2].outcome.kind = "ConnectionError"
    /\ posts[3].outcome.status_code = HTTP_OK

\* get_key has been called and has passed its argument tests or raised
GetKeyEntered == Did("get_key") /\ pc # "get_key"
\* what a get_key call that does nothing on the network leaves behind
NoBrokerActivity ==
    /\ private_key = 0 /\ tdquote = NoQuote /\ posts = <<>>
    /\ ~Did("keygen") /\ ~Did("get_quote") /\ ~Did("post")

\* C4 as claimed: a get_key call whose server_url or key_id is None or empty
\* fails with InvalidArgument; no key pair is generated, no evidence is
\* requested and no POST is sent.
C4_NoneOrEmptyRejected ==
    (GetKeyEntered /\ (server_url \in {None, ""} \/ key_id \in {None, ""}))
       => (pc = "failed" /\ InvalidArgument(error) /\ NoBrokerActivity)

\* C4 amended: a get_key call whose server_url or key_id is None fails with
\* InvalidArgument (ValueError); no key pair is generated, no evidence is
\* requested and no POST is sent.  An empty string is not rejected.
C4_NoneRejected ==
    (GetKeyEntered /\ (server_url = None \/ key_id = None))
       => (pc = "failed" /\ InvalidArgument(error) /\ NoBrokerActivity)

\* get_key("https://kbs", None), called directly, has raised ValueError
C4_Witness ==
    /\ caller = "direct" /\ GetKeyEntered
    /\ server_url = "https://kbs" /\ key_id = None
    /\ pc = "failed" /\ error = Err("ValueError", "KBS key id can not be None")

\* C5: when the metadata says encrypted and kbs, kbs_url or key_id is
\* absent, decrypt_model fails the retrieval with InvalidArgument before
\* get_key is called and before the staging path is opened.
BrokerFieldAbsent ==
    meta_data.kbs = None \/ meta_data.kbs_url = None \/ meta_data.key_id = None
C5_AbsentBrokerFieldRejected ==
    (Did("decrypt_model") /\ Truthy(meta_data.encrypted) /\ BrokerFieldAbsent)
       => /\ pc = "failed" /\ InvalidArgument(error)
          /\ ~Did("get_key") /\ ~Did("open")

\* C6: the running retrieval has put a file at the staging path only if it
\* completed, decryption included, and the file holds the whole plaintext.
C6_NothingStagedOnFailure ==
    (Did("open") /\ fs[self._path] # NoFile)
       => /\ pc = "done" /\ error = NoError
          /\ fs[self._path] = model_data
          /\ Truthy(meta_data.encrypted) => (Did("decrypt_data") /\ dd.called)

\* C7: when the metadata says encrypted and kbs is a value other than
\* "amber", decrypt_model raises (UnsupportedBrokerType) instead of
\* returning; the broker is not contacted and nothing is staged.
C7_UnsupportedBrokerRejected ==
    (Did("decrypt_model") /\ Truthy(meta_data.encrypted)
        /\ meta_data.kbs \notin {None, "amber"})
       => /\ pc = "failed" /\ error.type \notin {"", "TypeError"}
          /\ posts = <<>> /\ ~Did("get_key")
          /\ ~Did("open") /\ fs[self._path] = NoFile

\* C8: the slices decrypt_data hands to the cipher are
\* iv = envelope[12 : 12+iv_len], ciphertext = envelope[12+iv_len :
\* len(envelope)-tag_len] and tag = envelope[len(envelope)-tag_len :], for
\* every header, tag_len = 0 included, whatever data_len is.
RefIv(e) == PySlice(e, header_len, header_len + iv_len(e))
RefCipherText(e) == PySlice(e, header_len + iv_len(e), Len(e) - tag_len(e))
RefTag(e) == PySliceFrom(e, Len(e) - tag_len(e))
C8_SlicesMatchReference ==
    dd.called
       => /\ dd.iv = RefIv(dd.encrypted_data)
          /\ dd.data = RefCipherText(dd.encrypted_data)
          /\ dd.tag = RefTag(dd.encrypted_data)

\* C9: in a get_key call the nonce given to the attester is the base64 of
\* the public key of the key pair generated in this call, a key pair no
\* earlier call had; every POST carries that user_data and the base64 of
\* the evidence returned for it; wrapped_swk is opened with the private
\* half of the same pair.
C9_EvidenceBoundToFreshKey ==
    private_key # 0
       => /\ private_key \notin usedKeys
          /\ user_data = b64encode(public_bytes(public_key(private_key)))
          /\ tdquote.quote.nonce = user_data
          /\ \A i \in 1..Len(posts) :
                /\ posts[i].req.user_data = user_data
                /\ tdquote.got /\ posts[i].req.quote = b64encode(tdquote.quote)
          /\ unwrapped_by \in {0, private_key}

\* the second call of the process retried twice and opened wrapped_swk
C9_Witness ==
    /\ usedKeys = {1} /\ private_key = 2
    /\ Len(posts) = Retries /\ unwrapped_by = 2 /\ key = ContentKey

\* C10: when the metadata document has no url, the retrieval fails with
\* ValidationError and makes no download, no broker call and no write.
C10_MissingUrlFailsBeforeDownload ==
    (meta_data # NoMeta /\ meta_data.url = None)
       => /\ pc = "failed" /\ ValidationError(error)
          /\ ~Did("download") /\ ~Did("get_key") /\ ~Did("post")
          /\ ~Did("open") /\ model_data = NoneBytes /\ posts = <<>>

\* a document with an id and no url has been received and rejected
C10_Witness ==
    /\ Did("get_meta") /\ meta_data.id = "m1" /\ meta_data.url = None
    /\ pc = "failed" /\ ValidationError(error)

====
